---- MODULE Spec2Model ----
(***************************************************************************)
(* A model of the fromFilePath plugin (src/fromFilePath/fromFilePath.py):  *)
(* the path field guesser, the field reconciler with its track-number      *)
(* disambiguator (read_custom_tags), the pre-persist normalisers           *)
(* (process_new_items, process_changed_items) and the tag eraser           *)
(* (write_custom_tags).                                                    *)
(*                                                                         *)
(* Python values are modelled as follows.  A str is a sequence of          *)
(* one-character strings, so "" is << >>.  An int is an integer; a blank   *)
(* integer field (None or 0, both falsy, and the code only tests           *)
(* truthiness) is 0.  A date is one of the tokens of Dates, None being     *)
(* NoDate.  A dict is a function from its keys to its values.              *)
(***************************************************************************)
EXTENDS Integers, Sequences, FiniteSets, TLC

(***************************************************************************)
(* Bounds of the model.                                                    *)
(***************************************************************************)
\* The longest file name (with its extension) the guesser is applied to.
MaxNameLen == 5
\* The largest value the disambiguator's counter is let to reach.
MaxCount == 3
\* The longest run of consecutive read calls for one album that is followed.
MaxBatch == 3
\* The largest number of tracks the host holds in one session.
MaxTracks == 2
\* The track numbers the tag eraser is tried on are -MaxTrackNum..MaxTrackNum.
MaxTrackNum == 2
\* The number of read_custom_tags calls of a session followed call by call.
MaxHistory == 4

(***************************************************************************)
(* Characters.  The classes are those of Python's re for the characters    *)
(* used here; Alphabet is the set file names are drawn from.               *)
(***************************************************************************)
Alphabet == {"0", "1", "-", ".", " ", "a"}

\* Does character c belong to the regex class cls?
\*   "d" is \d, "sep" is [\.\-_:], "s" is \s, "any" is . (no newline),
\*   "w" is \w.
InClass(c, cls) ==
    CASE cls = "d"   -> c \in {"0", "1", "2", "3", "4", "5", "6", "7", "8", "9"}
      [] cls = "sep" -> c \in {".", "-", "_", ":"}
      [] cls = "s"   -> c \in {" ", "\t", "\n", "\r"}
      [] cls = "any" -> c # "\n"
      [] cls = "w"   -> c \in {"0", "1", "2", "3", "4", "5", "6", "7", "8", "9",
                               "_", "a", "b", "c", "d", "e", "f", "g", "h",
                               "i", "j", "k", "l", "m", "n", "o", "p", "q",
                               "r", "s", "t", "u", "v", "w", "x", "y", "z",
                               "A", "B", "C", "D", "E", "F", "G", "H", "I",
                               "J", "K", "L", "M", "N", "O", "P", "Q", "R",
                               "S", "T", "U", "V", "W", "X", "Y", "Z"}

\* _PATTERNS: each pattern is ^ e1 e2 ... $, every element a class with the
\* quantifier + and, when named, a capture group.
PATTERNS ==
    << << [cls |-> "d",   group |-> "disc"],
          [cls |-> "sep", group |-> ""],
          [cls |-> "d",   group |-> "track_num"],
          [cls |-> "s",   group |-> ""],
          [cls |-> "any", group |-> "title"] >>,
       << [cls |-> "d",   group |-> "track_num"],
          [cls |-> "s",   group |-> ""],
          [cls |-> "any", group |-> "title"] >> >>

(***************************************************************************)
(* Configuration.  The functions read the module globals _GUESS_TAGS and   *)
(* _PATTERNS each time they are called; nothing assigns them after the     *)
(* module is loaded.  GUESS_TAGS and PATTERNS are the values in the source.*)
(***************************************************************************)
VARIABLES
    guess_tags,             \* _GUESS_TAGS
    patterns                \* _PATTERNS

config == <<guess_tags, patterns>>

(***************************************************************************)
(* re.match: a backtracking matcher.  Each element takes the longest run   *)
(* of its class first and gives characters back, one at a time, while the  *)
(* rest of the pattern fails; the match must end at the end of the string. *)
(***************************************************************************)
RECURSIVE RunLen(_, _, _)
\* The length of the longest run of class cls in s starting at pos.
RunLen(s, pos, cls) ==
    IF pos > Len(s) \/ ~InClass(s[pos], cls) THEN 0
    ELSE 1 + RunLen(s, pos + 1, cls)

NoMatch == [ok |-> FALSE, ends |-> << >>]

RECURSIVE MatchFrom(_, _, _, _)
RECURSIVE TryLen(_, _, _, _, _)
\* Match elements e.. of pat against s from pos; ends[i] is the last
\* position taken by element e+i-1.
MatchFrom(pat, s, e, pos) ==
    IF e > Len(pat) THEN [ok |-> pos = Len(s) + 1, ends |-> << >>]
    ELSE TryLen(pat, s, e, pos, RunLen(s, pos, pat[e].cls))

TryLen(pat, s, e, pos, n) ==
    IF n = 0 THEN NoMatch
    ELSE LET rest == MatchFrom(pat, s, e + 1, pos + n)
         IN  IF rest.ok
             THEN [ok |-> TRUE, ends |-> <<pos + n - 1>> \o rest.ends]
             ELSE TryLen(pat, s, e, pos, n - 1)

re_match(pat, s) == MatchFrom(pat, s, 1, 1)

\* match.groupdict(): the named groups of a successful match m of pat on s.
groupdict(pat, s, m) ==
    LET named == {e \in 1..Len(pat) : pat[e].group # ""}
        start(e) == IF e = 1 THEN 1 ELSE m.ends[e - 1] + 1
        elem(g)  == CHOOSE e \in named : pat[e].group = g
    IN  [g \in {pat[e].group : e \in named} |->
            SubSeq(s, start(elem(g)), m.ends[elem(g)])]

(***************************************************************************)
(* Paths.  A path is its parent directory's name and its own name.         *)
(***************************************************************************)
RECURSIVE LastDot(_, _)
\* name.rfind("."), 1-based from position i downwards; 0 when there is none.
LastDot(name, i) ==
    IF i = 0 THEN 0
    ELSE IF name[i] = "." THEN i ELSE LastDot(name, i - 1)

\* path.stem: the name without its last suffix; a leading or a trailing dot
\* starts no suffix.
stem(path) ==
    LET name == path.name
        i    == LastDot(name, Len(name))
    IN  IF 1 < i /\ i < Len(name) THEN SubSeq(name, 1, i - 1) ELSE name

RECURSIVE FirstMatch_KeepBaseline(_, _, _)
\* A faulty variant of the loop: the captured groups do not replace what the
\* fields already hold, so the baseline title survives a match.
FirstMatch_KeepBaseline(fields, filename, i) ==
    IF i > Len(patterns) THEN fields
    ELSE LET match == re_match(patterns[i], filename)
         IN  IF match.ok
             THEN fields @@ groupdict(patterns[i], filename, match)
             ELSE FirstMatch_KeepBaseline(fields, filename, i + 1)

RECURSIVE FirstMatch(_, _, _)
\* The loop over _PATTERNS with its break: the groups of the first pattern
\* that matches, the fields unchanged when none does.
FirstMatch(fields, filename, i) ==
    IF i > Len(patterns) THEN fields
    ELSE LET match == re_match(patterns[i], filename)
         IN  IF match.ok
             THEN groupdict(patterns[i], filename, match) @@ fields
             ELSE FirstMatch(fields, filename, i + 1)

\* A faulty variant: no baseline title, so a title comes only from a match.
guess_fields_NoBaselineTitle(path) ==
    LET filename == stem(path)
        fields   == [album_title |-> path.parent]
    IN  FirstMatch(fields, filename, 1)

guess_fields(path) ==
    LET filename == stem(path)
        fields   == [title |-> filename, album_title |-> path.parent]
    IN  FirstMatch(fields, filename, 1)

(***************************************************************************)
(* The null-field policy.                                                  *)
(***************************************************************************)
NoDate   == "None"
DATE_MIN == "0001-01-01"

NULL_TRACK_FIELDS ==
    [title     |-> <<"<", "U", "n", "k", "n", "o", "w", "n", " ",
                     "T", "r", "a", "c", "k", ">">>,
     track_num |-> -1,
     disc      |-> 1]

NULL_ALBUM_FIELDS ==
    [title      |-> <<"U", "n", "k", "n", "o", "w", "n", " ",
                      "A", "l", "b", "u", "m">>,
     artist     |-> <<"U", "n", "k", "n", "o", "w", "n", " ",
                      "A", "r", "t", "i", "s", "t">>,
     date       |-> DATE_MIN,
     disc_total |-> 1]

\* The keys of the two tables in the order the loops visit them.
TRACK_KEYS == <<"title", "track_num", "disc">>
ALBUM_KEYS == <<"title", "artist", "date", "disc_total">>

\* The keys whose table value is an int.
IntKeys == {"track_num", "disc", "disc_total"}

GUESS_TAGS == TRUE

\* Python's "not value" for a field of the given key.
Blank(key, value) ==
    CASE key \in IntKeys -> value = 0
      [] key = "date"    -> value = NoDate
      [] OTHER           -> value = << >>

\* Does int(s) succeed on the str s?  Digits, with single underscores
\* between them; the sign and the blanks int() also accepts cannot come out
\* of a \d+ or a \w+ group.
IsNumeric(s) ==
    /\ s # << >>
    /\ \A i \in 1..Len(s) : InClass(s[i], "d") \/ s[i] = "_"
    /\ InClass(s[1], "d") /\ InClass(s[Len(s)], "d")
    /\ \A i \in 1..(Len(s) - 1) : ~(s[i] = "_" /\ s[i + 1] = "_")

DigitVal(c) ==
    CASE c = "0" -> 0 [] c = "1" -> 1 [] c = "2" -> 2 [] c = "3" -> 3
      [] c = "4" -> 4 [] c = "5" -> 5 [] c = "6" -> 6 [] c = "7" -> 7
      [] c = "8" -> 8 [] c = "9" -> 9

RECURSIVE int(_)
int(s) ==
    IF Len(s) = 0 THEN 0
    ELSE IF s[Len(s)] = "_" THEN int(SubSeq(s, 1, Len(s) - 1))
    ELSE 10 * int(SubSeq(s, 1, Len(s) - 1)) + DigitVal(s[Len(s)])

\* The dict guess_fields is looked up in; empty when guessing is off (the
\* code then never reads it).
NoFields == [k \in {} |-> << >>]

RECURSIVE FixupTrack(_, _, _)
\* A faulty variant: a guess int() cannot convert is dropped and the field
\* keeps its table value, without an error.
FixupTrack_SilentDefault(fields, guessed, i) ==
    IF i > Len(TRACK_KEYS) THEN [fields |-> fields, raised |-> FALSE]
    ELSE LET key == TRACK_KEYS[i]
         IN  IF ~Blank(key, fields[key])
             THEN FixupTrack(fields, guessed, i + 1)
             ELSE IF guess_tags /\ key \in DOMAIN guessed
                  THEN IF key \in IntKeys
                       THEN IF IsNumeric(guessed[key])
                            THEN FixupTrack(
                                   [fields EXCEPT ![key] = int(guessed[key])],
                                   guessed, i + 1)
                            ELSE FixupTrack(
                                   [fields EXCEPT
                                      ![key] = NULL_TRACK_FIELDS[key]],
                                   guessed, i + 1)
                       ELSE FixupTrack([fields EXCEPT ![key] = guessed[key]],
                                       guessed, i + 1)
                  ELSE FixupTrack(
                         [fields EXCEPT ![key] = NULL_TRACK_FIELDS[key]],
                         guessed, i + 1)

\* The loop over _NULL_TRACK_FIELDS from key number i on.  The result is the
\* field set and whether int() raised; a raise leaves the key it happened
\* at on its table value and the later keys untouched.
FixupTrack(fields, guessed, i) ==
    IF i > Len(TRACK_KEYS) THEN [fields |-> fields, raised |-> FALSE]
    ELSE LET key == TRACK_KEYS[i]
         IN  IF ~Blank(key, fields[key])
             THEN FixupTrack(fields, guessed, i + 1)
             ELSE IF guess_tags /\ key \in DOMAIN guessed
                  THEN IF key \in IntKeys
                       THEN IF IsNumeric(guessed[key])
                            THEN FixupTrack(
                                   [fields EXCEPT ![key] = int(guessed[key])],
                                   guessed, i + 1)
                            ELSE [fields |-> [fields EXCEPT
                                                ![key] = NULL_TRACK_FIELDS[key]],
                                  raised |-> TRUE]
                       ELSE FixupTrack([fields EXCEPT ![key] = guessed[key]],
                                       guessed, i + 1)
                  ELSE FixupTrack(
                         [fields EXCEPT ![key] = NULL_TRACK_FIELDS[key]],
                         guessed, i + 1)

\* A faulty variant: the guess is looked up under the field's own name.
AlbumGuessKey_NoPrefix(key) == key

\* "album_" + key
AlbumGuessKey(key) ==
    CASE key = "title"      -> "album_title"
      [] key = "artist"     -> "album_artist"
      [] key = "date"       -> "album_date"
      [] key = "disc_total" -> "album_disc_total"

RECURSIVE FixupAlbum(_, _, _)
\* The loop over _NULL_ALBUM_FIELDS from key number i on.
FixupAlbum(fields, guessed, i) ==
    IF i > Len(ALBUM_KEYS) THEN fields
    ELSE LET key         == ALBUM_KEYS[i]
             guessed_key == AlbumGuessKey(key)
         IN  IF ~Blank(key, fields[key])
             THEN FixupAlbum(fields, guessed, i + 1)
             ELSE IF guess_tags /\ guessed_key \in DOMAIN guessed
                  THEN FixupAlbum([fields EXCEPT ![key] = guessed[guessed_key]],
                                  guessed, i + 1)
                  ELSE FixupAlbum(
                         [fields EXCEPT ![key] = NULL_ALBUM_FIELDS[key]],
                         guessed, i + 1)

(***************************************************************************)
(* State.                                                                  *)
(***************************************************************************)
VARIABLES
    null_track_num_count,   \* _null_track_num_count
    last_added_album,       \* _last_added_album
    call,                   \* the arguments of the latest read_custom_tags
                            \* call, as they entered and as it left them
    batch,                  \* history: the run of consecutive read calls
                            \* for one album that the latest call belongs to
    items,                  \* the host's library items of this session,
                            \* each track with its file's tags
    last_hook,              \* history: the latest pre-persist or write hook
                            \* call, with what it was given and what it left
    guess,                  \* a guess_fields call: its path and its result
    history                 \* history: the read_custom_tags calls of a
                            \* session that is followed call by call

vars == <<null_track_num_count, last_added_album, call, batch, items,
          last_hook, guess, history, guess_tags, patterns>>

NoCall  == [op |-> "none"]
NoBatch == [len |-> 0]

(***************************************************************************)
(* The track-number disambiguator: the last statements of                  *)
(* read_custom_tags, as a function of the two globals, the reconciled      *)
(* track_num and the reconciled album title.                               *)
(***************************************************************************)
\* A faulty variant: the counter is not incremented within an album.
Disambiguate_NoIncrement(count, last, track_num, album_title) ==
    IF track_num = NULL_TRACK_FIELDS["track_num"]
    THEN IF last # album_title
         THEN [count |-> 1, last |-> album_title, track_num |-> -1]
         ELSE [count |-> count, last |-> last, track_num |-> -count]
    ELSE [count |-> count, last |-> last, track_num |-> track_num]

\* A faulty variant: the counter is not reset when the album changes.
Disambiguate_NoReset(count, last, track_num, album_title) ==
    IF track_num = NULL_TRACK_FIELDS["track_num"]
    THEN [count |-> count + 1,
          last |-> IF last # album_title THEN album_title ELSE last,
          track_num |-> -(count + 1)]
    ELSE [count |-> count, last |-> last, track_num |-> track_num]

\* A faulty variant: the album bookkeeping runs for every track, only the
\* renumbering is kept to the sentinel.
Disambiguate_EveryTrack(count, last, track_num, album_title) ==
    LET new == IF last # album_title THEN 1 ELSE count + 1
    IN  [count     |-> new,
         last      |-> album_title,
         track_num |-> IF track_num = NULL_TRACK_FIELDS["track_num"]
                       THEN -new ELSE track_num]

\* A faulty variant: the counter is reset when the album changes but the new
\* album title is not recorded.
Disambiguate_StaleAlbum(count, last, track_num, album_title) ==
    IF track_num = NULL_TRACK_FIELDS["track_num"]
    THEN IF last # album_title
         THEN [count |-> 1, last |-> last, track_num |-> -1]
         ELSE [count |-> count + 1, last |-> last,
               track_num |-> -(count + 1)]
    ELSE [count |-> count, last |-> last, track_num |-> track_num]

\* A faulty variant: one numbering for all albums, the album title ignored.
Disambiguate_IgnoreAlbum(count, last, track_num, album_title) ==
    IF track_num = NULL_TRACK_FIELDS["track_num"]
    THEN [count |-> count + 1, last |-> last, track_num |-> -(count + 1)]
    ELSE [count |-> count, last |-> last, track_num |-> track_num]

Disambiguate(count, last, track_num, album_title) ==
    IF track_num = NULL_TRACK_FIELDS["track_num"]
    THEN IF last # album_title
         THEN [count |-> 1, last |-> album_title, track_num |-> -1]
         ELSE [count |-> count + 1, last |-> last,
               track_num |-> -(count + 1)]
    ELSE [count |-> count, last |-> last, track_num |-> track_num]

(***************************************************************************)
(* read_custom_tags.  The two dicts are changed in place: call.track_fields*)
(* and call.album_fields are what the caller holds when the hook returns   *)
(* or raises; track_in, album_in, count_in and last_in record the values   *)
(* on entry, reconciled the track fields before the disambiguator ran,     *)
(* guessed_fields what the guesser returned to the call.                   *)
(* Each intermediate value is bound once, by \E over a singleton.          *)
(***************************************************************************)
\* A faulty variant: the guesser is invoked whatever the toggle says.
GuessIfEnabled_Always(track_path) == guess_fields(track_path)

\* The first statement: guessed_fields is bound only when the toggle is on
\* (NoFields stands for the unbound name).
GuessIfEnabled(track_path) ==
    IF guess_tags THEN guess_fields(track_path) ELSE NoFields

read_custom_tags(track_path, album_fields, track_fields) ==
    \E guessed_fields \in {GuessIfEnabled(track_path)} :
    \E t \in {FixupTrack(track_fields, guessed_fields, 1)} :
    \E a \in {IF t.raised THEN album_fields
              ELSE FixupAlbum(album_fields, guessed_fields, 1)} :
    \E d \in {IF t.raised
              THEN [count |-> null_track_num_count, last |-> last_added_album,
                    track_num |-> t.fields["track_num"]]
              ELSE Disambiguate(null_track_num_count, last_added_album,
                                t.fields["track_num"], a["title"])} :
    \E blank_in \in {Blank("track_num", track_fields["track_num"])
                     /\ "track_num" \notin DOMAIN guessed_fields} :
    \E same \in {batch.len > 0 /\ batch.album = a["title"]} :
        /\ d.count <= MaxCount
        /\ same => batch.len < MaxBatch
        /\ null_track_num_count' = d.count
        /\ last_added_album' = d.last
        /\ call' = [op           |-> "read",
                    track_path   |-> track_path,
                    track_in     |-> track_fields,
                    album_in     |-> album_fields,
                    count_in     |-> null_track_num_count,
                    last_in      |-> last_added_album,
                    raised       |-> t.raised,
                    guessed_fields |-> guessed_fields,
                    reconciled   |-> t.fields,
                    track_fields |-> [t.fields EXCEPT
                                        !["track_num"] = d.track_num],
                    album_fields |-> a]
        /\ batch' = IF t.raised THEN batch
                    ELSE IF same
                    THEN [batch EXCEPT !.len = @ + 1,
                                       !.all_blank = @ /\ blank_in]
                    ELSE [album     |-> a["title"],
                          len       |-> 1,
                          all_blank |-> blank_in,
                          fresh     |-> \/ last_added_album # a["title"]
                                        \/ null_track_num_count = 0]
        /\ UNCHANGED config
        /\ UNCHANGED <<items, last_hook, guess>>

(***************************************************************************)
(* The inputs of the read hook.                                            *)
(***************************************************************************)
ReadNames ==
    { <<"a", ".", "a">>,                        \* no pattern matches
      <<"0", " ", "a", ".", "a">>,              \* pattern 2, track_num "0"
      <<"0", ".", "1", " ", "a", ".", "a">> }   \* pattern 1, disc "0"
ParentNames == { << >>, <<"Y">> }
ReadPaths == [parent : ParentNames, name : ReadNames]

\* What the host read from the file's tags: blank where the tag is absent.
TrackTags ==
    { [title |-> r[1], track_num |-> n, disc |-> r[2]] :
        n \in { 0, 2, -1, -2 },
        r \in { << << >>, 0 >>, << <<"R">>, 2 >> } }
AlbumTags ==
    { [title |-> t, artist |-> r[1], date |-> r[2], disc_total |-> r[3]] :
        t \in { << >>, <<"X">> },
        r \in { << << >>, NoDate, 0 >>, << <<"A">>, "2020-05-17", 2 >> } }

ReadInit ==
    /\ null_track_num_count = 0
    /\ last_added_album = << >>
    /\ call = NoCall
    /\ batch = NoBatch
    /\ items = << >>
    /\ last_hook = NoCall
    /\ guess = NoCall
    /\ history = << >>
    /\ guess_tags = GUESS_TAGS
    /\ patterns = PATTERNS

ReadHook ==
    \E track_path \in ReadPaths, album_fields \in AlbumTags,
       track_fields \in TrackTags :
        /\ read_custom_tags(track_path, album_fields, track_fields)
        /\ UNCHANGED history

ReadNext == ReadHook

SpecRead == ReadInit /\ [][ReadNext]_vars

(***************************************************************************)
(* A session of read_custom_tags calls followed call by call: tracks with  *)
(* blank tags from the albums "Y" (the directory), "" (no directory name)  *)
(* and "X" (the album title tag), with or without a track number in the    *)
(* file name, in every order.  history holds, per call, the reconciled     *)
(* album title, whether the reconciled track_num was the sentinel, and the *)
(* track_num the call left.                                                *)
(***************************************************************************)
SessionPaths ==
    { [parent |-> <<"Y">>, name |-> <<"a", ".", "a">>],
      [parent |-> << >>,   name |-> <<"a", ".", "a">>],
      [parent |-> <<"Y">>, name |-> <<"1", " ", "a", ".", "a">>] }
SessionTrackTags == { [title |-> << >>, track_num |-> 0, disc |-> 0] }
SessionAlbumTags ==
    { [title |-> t, artist |-> << >>, date |-> NoDate, disc_total |-> 0] :
        t \in { << >>, <<"X">> } }

SessionRead ==
    /\ Len(history) < MaxHistory
    /\ \E track_path \in SessionPaths, album_fields \in SessionAlbumTags,
          track_fields \in SessionTrackTags :
           read_custom_tags(track_path, album_fields, track_fields)
    /\ history' = Append(history,
                         [album     |-> call'.album_fields["title"],
                          sentinel  |-> call'.reconciled["track_num"]
                                          = NULL_TRACK_FIELDS["track_num"],
                          track_num |-> call'.track_fields["track_num"]])

SessionNext == SessionRead

SpecSession == ReadInit /\ [][SessionNext]_vars

(***************************************************************************)
(* The read hook under a pattern list that does not keep the integer       *)
(* fields to digits: after the two patterns of the source come one whose   *)
(* disc group and one whose track_num group is \w+,                        *)
(*     ^(?P<disc>\w+)[\.\-_:]+(?P<track_num>\d+)\s+(?P<title>.+)$          *)
(*     ^(?P<track_num>\w+)\s+(?P<title>.+)$                                *)
(* so that int() meets a guess that is not numeric.                        *)
(***************************************************************************)
WORD_PATTERNS ==
    PATTERNS \o
    << << [cls |-> "w",   group |-> "disc"],
          [cls |-> "sep", group |-> ""],
          [cls |-> "d",   group |-> "track_num"],
          [cls |-> "s",   group |-> ""],
          [cls |-> "any", group |-> "title"] >>,
       << [cls |-> "w",   group |-> "track_num"],
          [cls |-> "s",   group |-> ""],
          [cls |-> "any", group |-> "title"] >> >>

CoerceNames ==
    { <<"a">>,                          \* no pattern matches
      <<"0", "1", " ", "a">>,           \* track_num "01"
      <<"a", "1", " ", "a">>,           \* track_num "a1"
      <<"a", "-", "1", " ", "a">> }     \* disc "a", track_num "1"
CoercePaths == [parent : { <<"Y">> }, name : CoerceNames]

CoerceInit ==
    /\ null_track_num_count = 0
    /\ last_added_album = << >>
    /\ call = NoCall
    /\ batch = NoBatch
    /\ items = << >>
    /\ last_hook = NoCall
    /\ guess = NoCall
    /\ history = << >>
    /\ guess_tags = GUESS_TAGS
    /\ patterns = WORD_PATTERNS

CoerceRead ==
    /\ \E track_path \in CoercePaths, album_fields \in SessionAlbumTags,
          track_fields \in TrackTags :
           read_custom_tags(track_path, album_fields, track_fields)
    /\ UNCHANGED history

CoerceNext == CoerceRead

SpecCoerce == CoerceInit /\ [][CoerceNext]_vars

(***************************************************************************)
(* The read hook on files whose tags, where present, hold ordinary values: *)
(* a track number and a disc number from 1 up, a disc total from 1 up, a   *)
(* release date, an album title.                                           *)
(***************************************************************************)
RealTrackTags ==
    [title : { << >> }, track_num : { 0, 1 }, disc : { 0, 1, 2 }]
RealAlbumTags ==
    [title : { << >>, <<"X">> }, artist : { << >> },
     date : { NoDate, "2020-05-17" }, disc_total : { 0, 1, 2 }]
RealPaths ==
    { [parent |-> <<"Y">>, name |-> <<"a", ".", "a">>],
      \* a directory named by a number, a file name with disc and track
      [parent |-> <<"1">>, name |-> <<"1", "-", "1", " ", "a">>] }

RealRead ==
    /\ \E track_path \in RealPaths, album_fields \in RealAlbumTags,
          track_fields \in RealTrackTags :
           read_custom_tags(track_path, album_fields, track_fields)
    /\ UNCHANGED history

RealNext == RealRead

SpecReal == ReadInit /\ [][RealNext]_vars

(***************************************************************************)
(* The read hook with path-based guessing switched off in the              *)
(* configuration (_GUESS_TAGS = False).                                    *)
(***************************************************************************)
NoGuessInit ==
    /\ null_track_num_count = 0
    /\ last_added_album = << >>
    /\ call = NoCall
    /\ batch = NoBatch
    /\ items = << >>
    /\ last_hook = NoCall
    /\ guess = NoCall
    /\ history = << >>
    /\ guess_tags = FALSE
    /\ patterns = PATTERNS

NoGuessNext == ReadHook

SpecNoGuess == NoGuessInit /\ [][NoGuessNext]_vars

(***************************************************************************)
(* The pre-persist hooks, as functions of the list they are given: the     *)
(* list as the in-place assignments leave it.                              *)
(***************************************************************************)
\* A faulty variant: only the values below the sentinel -1 are zeroed.
process_new_items_BelowSentinel(list) ==
    [i \in 1..Len(list) |->
        IF list[i].type = "Track"
        THEN IF list[i].track_num < -1
             THEN [list[i] EXCEPT !.track_num = 0]
             ELSE list[i]
        ELSE list[i]]

\* A faulty variant: the disc is zeroed together with the track_num.
process_new_items_ZeroDisc(list) ==
    [i \in 1..Len(list) |->
        IF list[i].type = "Track"
        THEN IF list[i].track_num < 0
             THEN [list[i] EXCEPT !.track_num = 0, !.disc = 0]
             ELSE list[i]
        ELSE list[i]]

process_new_items(list) ==
    [i \in 1..Len(list) |->
        IF list[i].type = "Track"
        THEN IF list[i].track_num < 0
             THEN [list[i] EXCEPT !.track_num = 0]
             ELSE list[i]
        ELSE list[i]]

\* A faulty variant: the hook leaves the placeholders in place.
process_changed_items_KeepPlaceholders(list) == list

\* A faulty variant: a negative track_num is negated instead of zeroed.
process_changed_items_Negate(list) ==
    [i \in 1..Len(list) |->
        IF list[i].type = "Track"
        THEN IF list[i].track_num < 0
             THEN [list[i] EXCEPT !.track_num = -list[i].track_num]
             ELSE list[i]
        ELSE list[i]]

process_changed_items(list) ==
    [i \in 1..Len(list) |->
        IF list[i].type = "Track"
        THEN IF list[i].track_num < 0
             THEN [list[i] EXCEPT !.track_num = 0]
             ELSE list[i]
        ELSE list[i]]

(***************************************************************************)
(* The tag eraser.  A file's tags are a function from the names of the     *)
(* tags the file holds to their values; deleting a tag removes its name.   *)
(***************************************************************************)
\* audio_file.<name>: None when the file holds no such tag.
HasTag(audio_file, name) == name \in DOMAIN audio_file

\* A faulty variant: only the in-memory track_num is looked at.
nullTags_MemoryOnly(track_num, audio_file) ==
    (IF track_num <= 0 THEN {"track"} ELSE {})
    \cup
    (IF HasTag(audio_file, "date") /\ audio_file["date"] = NULL_ALBUM_FIELDS["date"]
     THEN {"date"} ELSE {})

\* A faulty variant: only negative values, not 0, delete the track tag.
nullTags_Negative(track_num, audio_file) ==
    (IF track_num < 0 \/ audio_file["track"] < 0 THEN {"track"} ELSE {})
    \cup
    (IF HasTag(audio_file, "date") /\ audio_file["date"] = NULL_ALBUM_FIELDS["date"]
     THEN {"date"} ELSE {})

\* The keys of nullTags.  The second operand of "or" is evaluated only when
\* the first is false.
nullTags(track_num, audio_file) ==
    (IF track_num <= 0 \/ audio_file["track"] <= 0 THEN {"track"} ELSE {})
    \cup
    (IF HasTag(audio_file, "date") /\ audio_file["date"] = NULL_ALBUM_FIELDS["date"]
     THEN {"date"} ELSE {})

\* audio_file.update(nullTags); audio_file.save().  Comparing a missing
\* track tag (None) with 0 raises before anything is written.
write_custom_tags(track_num, audio_file) ==
    IF track_num > 0 /\ ~HasTag(audio_file, "track")
    THEN [raised |-> TRUE, tags |-> audio_file]
    ELSE [raised |-> FALSE,
          tags   |-> [name \in DOMAIN audio_file \ nullTags(track_num, audio_file)
                        |-> audio_file[name]]]

(***************************************************************************)
(* The host.  It builds a Track (and the Album, once) from the dicts the   *)
(* read hook returned, calls a pre-persist hook on the session's items     *)
(* right before it commits them, then writes each committed track's tags   *)
(* to its file and calls the write hook.  tag, reconciled, read_num,       *)
(* counter and guessed are history: the track_num tag of the file as read, *)
(* track_num before and after the disambiguator, the counter when the read *)
(* hook returned, and whether the path gave a track_num guess.             *)
(***************************************************************************)
NoTags == [name \in {} |-> 0]

\* The tags of the file the latest read call was for.
TagsRead ==
    (IF Blank("title", call.track_in["title"]) THEN NoTags
     ELSE "title" :> call.track_in["title"])
    @@ (IF Blank("track_num", call.track_in["track_num"]) THEN NoTags
        ELSE "track" :> call.track_in["track_num"])
    @@ (IF Blank("date", call.album_in["date"]) THEN NoTags
        ELSE "date" :> call.album_in["date"])

NewTrack ==
    [type       |-> "Track",
     path       |-> call.track_path,
     title      |-> call.track_fields["title"],
     track_num  |-> call.track_fields["track_num"],
     disc       |-> call.track_fields["disc"],
     album      |-> call.album_fields["title"],
     date       |-> call.album_fields["date"],
     stage      |-> "new",
     file       |-> TagsRead,
     tag        |-> call.track_in["track_num"],
     reconciled |-> call.reconciled["track_num"],
     read_num   |-> call.track_fields["track_num"],
     counter    |-> null_track_num_count,
     guessed    |-> "track_num" \in DOMAIN guess_fields(call.track_path)]

NewAlbum ==
    [type       |-> "Album",
     title      |-> call.album_fields["title"],
     artist     |-> call.album_fields["artist"],
     date       |-> call.album_fields["date"],
     disc_total |-> call.album_fields["disc_total"]]

Tracks == {i \in 1..Len(items) : items[i].type = "Track"}

\* No file has been written yet.
InSession == \A i \in Tracks : items[i].stage \in {"new", "committed"}

AddTrack ==
    /\ call.op = "read" /\ ~call.raised
    /\ InSession
    /\ Cardinality(Tracks) < MaxTracks
    /\ items' = IF \E i \in 1..Len(items) :
                      items[i].type = "Album" /\ items[i].title = NewAlbum.title
                THEN Append(items, NewTrack)
                ELSE items \o <<NewAlbum, NewTrack>>
    /\ call' = NoCall
    /\ UNCHANGED <<config, history>>
    /\ UNCHANGED <<null_track_num_count, last_added_album, batch,
                   last_hook, guess>>

\* The host commits what the hook left.
Commit(list) ==
    [i \in 1..Len(list) |->
        IF list[i].type = "Track" /\ list[i].stage = "new"
        THEN [list[i] EXCEPT !.stage = "committed"]
        ELSE list[i]]

ProcessNewItems ==
    /\ items # << >> /\ InSession
    /\ last_hook' = [op     |-> "process_new_items",
                     before |-> items,
                     after  |-> process_new_items(items)]
    /\ items' = Commit(process_new_items(items))
    /\ UNCHANGED <<config, history>>
    /\ UNCHANGED <<null_track_num_count, last_added_album, call, batch, guess>>

ProcessChangedItems ==
    /\ items # << >> /\ InSession
    /\ last_hook' = [op     |-> "process_changed_items",
                     before |-> items,
                     after  |-> process_changed_items(items)]
    /\ items' = Commit(process_changed_items(items))
    /\ UNCHANGED <<config, history>>
    /\ UNCHANGED <<null_track_num_count, last_added_album, call, batch, guess>>

\* The host's default write of track i: its fields become the file's tags.
DefaultWrite(i) ==
    /\ items[i].stage = "committed"
    /\ \A j \in Tracks : items[j].stage # "new"
    /\ \A j \in Tracks : j < i => items[j].stage \in {"erased", "failed"}
    /\ items' = [items EXCEPT
                   ![i].stage = "written",
                   ![i].file  = [title |-> items[i].title,
                                 track |-> items[i].track_num,
                                 date  |-> items[i].date]]
    /\ UNCHANGED <<config, history>>
    /\ UNCHANGED <<null_track_num_count, last_added_album, call, batch,
                   last_hook, guess>>

WriteCustomTags(i) ==
    /\ items[i].stage = "written"
    /\ \E r \in {write_custom_tags(items[i].track_num, items[i].file)} :
        /\ items' = [items EXCEPT
                       ![i].stage = IF r.raised THEN "failed" ELSE "erased",
                       ![i].file  = r.tags]
        /\ last_hook' = [op        |-> "write_custom_tags",
                         track_num |-> items[i].track_num,
                         before    |-> items[i].file,
                         after     |-> r.tags,
                         raised    |-> r.raised]
    /\ UNCHANGED <<config, history>>
    /\ UNCHANGED <<null_track_num_count, last_added_album, call, batch, guess>>

(***************************************************************************)
(* The pipeline: read, add, pre-persist hook and commit, write.            *)
(***************************************************************************)
PipeNames ==
    { <<"a", ".", "a">>,                \* no pattern matches
      <<"1", " ", "a", ".", "a">> }     \* pattern 2, track_num "1"
PipePaths == [parent : { <<"Y">> }, name : PipeNames]
PipeTrackTags ==
    [title : { << >> }, track_num : { 0, 2, -1, -2 }, disc : { 0 }]
PipeAlbumTags ==
    [title : { << >> }, artist : { << >> },
     date : { NoDate }, disc_total : { 0 }]

Init == ReadInit

PipeRead ==
    /\ call = NoCall
    /\ InSession
    /\ \E track_path \in PipePaths, album_fields \in PipeAlbumTags,
          track_fields \in PipeTrackTags :
           read_custom_tags(track_path, album_fields, track_fields)
    /\ UNCHANGED history

Next ==
    \/ PipeRead
    \/ AddTrack
    \/ ProcessNewItems
    \/ ProcessChangedItems
    \/ \E i \in Tracks : DefaultWrite(i)
    \/ \E i \in Tracks : WriteCustomTags(i)

Spec == Init /\ [][Next]_vars

(***************************************************************************)
(* The tag eraser alone, on a track whose tags the host has just written:  *)
(* every in-memory track_num with every track and date tag on the disk (a  *)
(* file that holds no track tag only for a track_num the format drops).    *)
(***************************************************************************)
WriteTrackNums == -MaxTrackNum..MaxTrackNum
WriteFiles(track_num) ==
    { [title |-> <<"R">>] @@ t @@ d :
        t \in { "track" :> n : n \in WriteTrackNums }
                \cup (IF track_num <= 0 THEN {NoTags} ELSE {}),
        d \in { NoTags, "date" :> DATE_MIN, "date" :> "2020-05-17" } }

WriteInit ==
    /\ null_track_num_count = 0
    /\ last_added_album = << >>
    /\ call = NoCall
    /\ batch = NoBatch
    /\ last_hook = NoCall
    /\ guess = NoCall
    /\ history = << >>
    /\ guess_tags = GUESS_TAGS
    /\ patterns = PATTERNS
    /\ \E track_num \in WriteTrackNums :
       \E file \in WriteFiles(track_num) :
          items = << [type       |-> "Track",
                      path       |-> [parent |-> <<"Y">>,
                                      name   |-> <<"a", ".", "a">>],
                      title      |-> <<"R">>,
                      track_num  |-> track_num,
                      disc       |-> 1,
                      album      |-> <<"Y">>,
                      date       |-> DATE_MIN,
                      stage      |-> "written",
                      file       |-> file,
                      tag        |-> 0,
                      reconciled |-> track_num,
                      read_num   |-> track_num,
                      counter    |-> 0,
                      guessed    |-> FALSE] >>

WriteNext == \E i \in Tracks : WriteCustomTags(i)

SpecWrite == WriteInit /\ [][WriteNext]_vars

(***************************************************************************)
(* guess_fields alone, on every path whose name is at most MaxNameLen      *)
(* characters of Alphabet.                                                 *)
(***************************************************************************)
RECURSIVE Strings(_)
\* The strings over Alphabet of length 1..n.
Strings(n) ==
    IF n = 0 THEN {}
    ELSE LET shorter == Strings(n - 1)
         IN  {<<c>> : c \in Alphabet}
             \cup shorter
             \cup {Append(t, c) : t \in shorter, c \in Alphabet}

\* "." is no file name.
GuessPaths ==
    [parent : { << >>, <<"X">> }, name : Strings(MaxNameLen) \ { <<".">> }]

GuessInit ==
    /\ null_track_num_count = 0
    /\ last_added_album = << >>
    /\ call = NoCall
    /\ batch = NoBatch
    /\ items = << >>
    /\ last_hook = NoCall
    /\ history = << >>
    /\ guess_tags = GUESS_TAGS
    /\ patterns = PATTERNS
    /\ \E path \in GuessPaths : guess = [op |-> "pending", path |-> path]

GuessFields ==
    /\ guess.op = "pending"
    /\ guess' = [op     |-> "returned",
                 path   |-> guess.path,
                 fields |-> guess_fields(guess.path)]
    /\ UNCHANGED <<config, history>>
    /\ UNCHANGED <<null_track_num_count, last_added_album, call, batch,
                   items, last_hook>>

GuessNext == GuessFields

SpecGuess == GuessInit /\ [][GuessNext]_vars

(***************************************************************************)
(* Claims about read_custom_tags.                                          *)
(***************************************************************************)
TrackKeySet == {TRACK_KEYS[i] : i \in 1..Len(TRACK_KEYS)}
AlbumKeySet == {ALBUM_KEYS[i] : i \in 1..Len(ALBUM_KEYS)}

Returned == call.op = "read" /\ ~call.raised

C2_NonBlank ==
    Returned =>
        /\ \A key \in TrackKeySet : ~Blank(key, call.track_fields[key])
        /\ \A key \in AlbumKeySet : ~Blank(key, call.album_fields[key])

\* C3 as stated.  Uniqueness: when the calls of the current run for one
\* album all had a blank track_num and no track_num guess, the k-th of them
\* leaves with track_num = -k.
C3_UniquenessAsStated ==
    (Returned /\ batch.all_blank)
        => call.track_fields["track_num"] = -batch.len

\* C3 as amended.  Uniqueness: when the calls of the current run for one
\* album all had a blank track_num and no track_num guess, and the run
\* began with the last-seen album different from their album title or with
\* the counter still 0, the k-th of them leaves with track_num = -k.
C3_Uniqueness ==
    (Returned /\ batch.all_blank /\ batch.fresh)
        => call.track_fields["track_num"] = -batch.len

\* The third of three such tracks has received -3.
C3_Witness ==
    /\ Returned /\ batch.all_blank /\ batch.fresh
    /\ batch.len = 3
    /\ call.track_fields["track_num"] = -3

\* C4.  Counter reset: a track whose reconciled track_num is the sentinel
\* and whose album title differs from the last-seen album receives -1, the
\* counter becomes 1 and the last-seen album becomes that title, whatever
\* the counter was.
C4_CounterReset ==
    ( /\ Returned
      /\ call.reconciled["track_num"] = NULL_TRACK_FIELDS["track_num"]
      /\ call.album_fields["title"] # call.last_in )
        => /\ call.track_fields["track_num"] = -1
           /\ null_track_num_count = 1
           /\ last_added_album = call.album_fields["title"]

\* The counter stood at 2 or more when the album changed.
C4_Witness ==
    /\ Returned
    /\ call.reconciled["track_num"] = NULL_TRACK_FIELDS["track_num"]
    /\ call.album_fields["title"] # call.last_in
    /\ call.count_in >= 2
    /\ call.track_fields["track_num"] = -1


(***************************************************************************)
(* Claims about the pre-persist hooks and the pipeline.                    *)
(***************************************************************************)
\* C5.  Pre-persist normalisation: after either hook every Track of the list
\* has track_num >= 0 (a negative one became 0, any other is unchanged), the
\* two hooks have the same effect on the list, and applying either to the
\* result changes nothing.
C5_Normalisation ==
    last_hook.op \in {"process_new_items", "process_changed_items"} =>
        LET before == last_hook.before
            after  == last_hook.after
        IN  /\ Len(after) = Len(before)
            /\ \A i \in 1..Len(after) :
                  after[i].type = "Track" =>
                      /\ after[i].track_num >= 0
                      /\ before[i].track_num < 0 => after[i].track_num = 0
                      /\ before[i].track_num >= 0
                            => after[i].track_num = before[i].track_num
            /\ process_new_items(before) = after
            /\ process_changed_items(before) = after
            /\ process_new_items(after) = after
            /\ process_changed_items(after) = after

\* process_changed_items has zeroed a negative track_num in a list that also
\* holds a non-Track item.
C5_Witness ==
    /\ last_hook.op = "process_changed_items"
    /\ \E i, j \in 1..Len(last_hook.before) :
          /\ last_hook.before[i].type = "Track"
          /\ last_hook.before[i].track_num < 0
          /\ last_hook.after[i].track_num = 0
          /\ last_hook.before[j].type = "Album"

\* Track i got its track_num from the disambiguator: it is the negated
\* counter, assigned because the reconciled track_num was the sentinel.
FromDisambiguator(i) ==
    /\ items[i].reconciled = NULL_TRACK_FIELDS["track_num"]
    /\ items[i].read_num = -items[i].counter

\* C6 as stated.  A track_num that is negative when the track reaches the
\* pre-persist hooks was assigned by the disambiguator, and no committed
\* track has a negative track_num.
C6_NegativeIsArtifactAsStated ==
    \A i \in Tracks :
        /\ (items[i].stage = "new" /\ items[i].track_num < 0)
              => FromDisambiguator(i)
        /\ items[i].stage # "new" => items[i].track_num >= 0

\* C6 as amended.  A track_num that is negative when the track reaches the
\* pre-persist hooks was assigned by the disambiguator or is the file's own
\* negative track-number tag, passed through unchanged; no committed track
\* has a negative track_num.
C6_NegativeIsArtifact ==
    \A i \in Tracks :
        /\ (items[i].stage = "new" /\ items[i].track_num < 0)
              => \/ FromDisambiguator(i)
                 \/ /\ items[i].tag < 0
                    /\ items[i].tag # NULL_TRACK_FIELDS["track_num"]
                    /\ items[i].track_num = items[i].tag
        /\ items[i].stage # "new" => items[i].track_num >= 0

\* Two committed tracks, one numbered by the disambiguator and one with a
\* negative tag of its own, both zeroed.
C6_Witness ==
    \E i, j \in Tracks :
        /\ items[i].stage = "committed" /\ items[j].stage = "committed"
        /\ FromDisambiguator(i) /\ items[i].read_num < 0
        /\ items[i].track_num = 0
        /\ items[j].tag = -2 /\ items[j].read_num = -2
        /\ items[j].track_num = 0

\* C8.  End-to-end sentinel path: a track with a blank track_num tag and no
\* track_num guess has a negative track_num after the read hook, track_num 0
\* once a pre-persist hook has run, no negative track tag on its file after
\* the default write, and no track tag at all after write_custom_tags.
C8_EndToEnd ==
    \A i \in Tracks :
        (Blank("track_num", items[i].tag) /\ ~items[i].guessed) =>
            /\ items[i].read_num < 0
            /\ items[i].stage = "new" => items[i].track_num = items[i].read_num
            /\ items[i].stage # "new" => items[i].track_num = 0
            /\ items[i].stage = "written" => items[i].file["track"] = 0
            /\ items[i].stage # "failed"
            /\ items[i].stage = "erased" => ~HasTag(items[i].file, "track")

\* Such a track, the second of its album, has gone through the pipeline.
C8_Witness ==
    \E i \in Tracks :
        /\ Blank("track_num", items[i].tag) /\ ~items[i].guessed
        /\ items[i].read_num = -2
        /\ items[i].stage = "erased"
        /\ ~HasTag(items[i].file, "track")

(***************************************************************************)
(* Claims about write_custom_tags.                                         *)
(***************************************************************************)
\* C7.  Tag eraser decision: write_custom_tags deletes the track tag if and
\* only if the in-memory track_num is <= 0 or the track tag on the disk is
\* <= 0, the date tag if and only if the date on the disk is the sentinel
\* date, and no other tag; the tags it keeps keep their values.
C7_EraserDecision ==
    last_hook.op = "write_custom_tags" =>
        LET before == last_hook.before
            after  == last_hook.after
            track  == \/ last_hook.track_num <= 0
                      \/ HasTag(before, "track") /\ before["track"] <= 0
            date   == HasTag(before, "date") /\ before["date"] = DATE_MIN
        IN  /\ ~last_hook.raised
            /\ DOMAIN after = DOMAIN before
                                \ ( (IF track THEN {"track"} ELSE {})
                                    \cup (IF date THEN {"date"} ELSE {}) )
            /\ \A name \in DOMAIN after : after[name] = before[name]

\* The two values disagree (in memory positive, on the disk not) and the
\* track tag has been deleted, the real date kept.
C7_Witness ==
    /\ last_hook.op = "write_custom_tags"
    /\ last_hook.track_num > 0
    /\ HasTag(last_hook.before, "track") /\ last_hook.before["track"] <= 0
    /\ ~HasTag(last_hook.after, "track")
    /\ HasTag(last_hook.after, "date")

(***************************************************************************)
(* Claims about guess_fields.                                              *)
(***************************************************************************)
\* Every character of the non-empty string s is of class cls.
AllOf(s, cls) == s # << >> /\ \A i \in 1..Len(s) : InClass(s[i], cls)

\* The string after the blanks: the blanks take all they can and leave the
\* title at least one character.
TitleAfterBlanks(title) == Len(title) = 1 \/ ~InClass(title[1], "s")

\* f is digits, separators, digits, blanks and text, in this order, and P
\* holds of the first digits, the second digits and the text.
Cut1(f, P(_, _, _)) ==
    \E i \in 1..Len(f) :
        /\ AllOf(SubSeq(f, 1, i), "d")
        /\ \E j \in i + 1..Len(f) :
            /\ AllOf(SubSeq(f, i + 1, j), "sep")
            /\ \E k \in j + 1..Len(f) :
                /\ AllOf(SubSeq(f, j + 1, k), "d")
                /\ \E l \in k + 1..Len(f) - 1 :
                    /\ AllOf(SubSeq(f, k + 1, l), "s")
                    /\ AllOf(SubSeq(f, l + 1, Len(f)), "any")
                    /\ P(SubSeq(f, 1, i), SubSeq(f, j + 1, k),
                         SubSeq(f, l + 1, Len(f)))

\* f is digits, blanks and text, in this order, and P holds of the digits
\* and the text.
Cut2(f, P(_, _)) ==
    \E i \in 1..Len(f) :
        /\ AllOf(SubSeq(f, 1, i), "d")
        /\ \E j \in i + 1..Len(f) - 1 :
            /\ AllOf(SubSeq(f, i + 1, j), "s")
            /\ AllOf(SubSeq(f, j + 1, Len(f)), "any")
            /\ P(SubSeq(f, 1, i), SubSeq(f, j + 1, Len(f)))

Shape1(f) == Cut1(f, LAMBDA disc, track_num, title : TRUE)
Shape2(f) == Cut2(f, LAMBDA track_num, title : TRUE)

\* C9.  Pattern results: for a filename of the first shape the result has
\* disc, track_num and title equal to the digits, the digits and the text;
\* for a filename of the second shape only, track_num and title equal to the
\* digits and the text, and no disc key; in both album_title is the parent
\* directory's name.
C9_PatternResults ==
    guess.op = "returned" =>
        LET f == stem(guess.path)
            r == guess.fields
        IN  /\ Shape1(f) =>
                  /\ DOMAIN r = {"title", "album_title", "disc", "track_num"}
                  /\ Cut1(f, LAMBDA disc, track_num, title :
                        /\ r["disc"] = disc
                        /\ r["track_num"] = track_num
                        /\ r["title"] = title
                        /\ TitleAfterBlanks(title))
                  /\ r["album_title"] = guess.path.parent
            /\ (Shape2(f) /\ ~Shape1(f)) =>
                  /\ DOMAIN r = {"title", "album_title", "track_num"}
                  /\ Cut2(f, LAMBDA track_num, title :
                        /\ r["track_num"] = track_num
                        /\ r["title"] = title
                        /\ TitleAfterBlanks(title))
                  /\ r["album_title"] = guess.path.parent

\* A filename of the first shape with its three groups in the result.
C9_Witness ==
    /\ guess.op = "returned"
    /\ Shape1(stem(guess.path))
    /\ guess.fields["disc"] = <<"0">>
    /\ guess.fields["track_num"] = <<"1">>
    /\ guess.fields["title"] = <<"a">>

\* C10.  No-match baseline: for a filename of neither shape the result has
\* exactly the keys title and album_title, the filename stem and the parent
\* directory's name.
C10_NoMatchBaseline ==
    (guess.op = "returned"
       /\ ~Shape1(stem(guess.path)) /\ ~Shape2(stem(guess.path)))
        => guess.fields = [title       |-> stem(guess.path),
                           album_title |-> guess.path.parent]

\* A filename that starts with a digit and is of neither shape.
C10_Witness ==
    /\ guess.op = "returned"
    /\ InClass(stem(guess.path)[1], "d")
    /\ ~Shape1(stem(guess.path)) /\ ~Shape2(stem(guess.path))
    /\ DOMAIN guess.fields = {"title", "album_title"}

(***************************************************************************)
(* Claims about the configuration of the read hook.                        *)
(***************************************************************************)
\* C11.  Guessing toggle: with path-based guessing switched off, a
\* read_custom_tags call does not invoke guess_fields, never raises, leaves
\* every track and album field that came in blank on its table sentinel
\* (track_num before the disambiguator), and the disambiguator still
\* replaces a sentinel track_num by the negated counter.
C11_ToggleOff ==
    (call.op = "read" /\ ~guess_tags) =>
        /\ call.guessed_fields = NoFields
        /\ ~call.raised
        /\ \A key \in TrackKeySet :
              Blank(key, call.track_in[key])
                  => call.reconciled[key] = NULL_TRACK_FIELDS[key]
        /\ \A key \in TrackKeySet \ {"track_num"} :
              call.track_fields[key] = call.reconciled[key]
        /\ \A key \in AlbumKeySet :
              Blank(key, call.album_in[key])
                  => call.album_fields[key] = NULL_ALBUM_FIELDS[key]
        /\ IF call.reconciled["track_num"] = NULL_TRACK_FIELDS["track_num"]
           THEN /\ null_track_num_count =
                      IF call.last_in # call.album_fields["title"]
                      THEN 1 ELSE call.count_in + 1
                /\ last_added_album = call.album_fields["title"]
                /\ call.track_fields["track_num"] = -null_track_num_count
           ELSE /\ call.track_fields["track_num"]
                      = call.reconciled["track_num"]
                /\ null_track_num_count = call.count_in
                /\ last_added_album = call.last_in

\* Guessing is off, the file name carries a track number and the parent
\* directory a name, all tags are blank: the fields are on their sentinels
\* and the track is the second of its album to be numbered.
C11_Witness ==
    /\ call.op = "read" /\ ~guess_tags
    /\ call.track_path = [parent |-> <<"Y">>,
                          name   |-> <<"0", " ", "a", ".", "a">>]
    /\ \A key \in TrackKeySet : Blank(key, call.track_in[key])
    /\ \A key \in AlbumKeySet : Blank(key, call.album_in[key])
    /\ call.track_fields["title"] = NULL_TRACK_FIELDS["title"]
    /\ call.album_fields["title"] = NULL_ALBUM_FIELDS["title"]
    /\ call.track_fields["track_num"] = -2

(***************************************************************************)
(* Claims about the order of the read calls.  Numbered is the history      *)
(* without the calls whose reconciled track_num was not the sentinel; a    *)
(* block is a maximal run of one album title in it.                        *)
(***************************************************************************)
Numbered == SelectSeq(history, LAMBDA h : h.sentinel)

BlockStart(S, k) == k = 1 \/ S[k - 1].album # S[k].album

\* C12.  Interleaving breaks uniqueness: among the sentinel tracks in the
\* order of their calls, every one that follows a track of another album
\* gets -1 (the counter was reset), so when an album comes back after
\* another one (A, B, A) its first track after the return gets the same
\* track_num -1 as the first track of its earlier run.
C12_InterleavingCollides ==
    \A k \in DOMAIN Numbered :
        BlockStart(Numbered, k) =>
            /\ Numbered[k].track_num = -1
            /\ \A i \in 1..(k - 1) :
                  (BlockStart(Numbered, i)
                     /\ Numbered[i].album = Numbered[k].album)
                  => Numbered[i].track_num = Numbered[k].track_num

\* Album Y, then album X, then album Y again, all three sentinel tracks:
\* both tracks of album Y hold -1.
C12_Witness ==
    /\ Len(Numbered) >= 3
    /\ \E k \in 3..Len(Numbered) :
          /\ Numbered[k - 2].album = <<"Y">>
          /\ Numbered[k - 1].album = <<"X">>
          /\ Numbered[k].album = <<"Y">>
          /\ Numbered[k - 2].track_num = -1
          /\ Numbered[k].track_num = -1

\* The position in S at which its last block starts.
LastBlockStart(S) == CHOOSE k \in DOMAIN S :
                        /\ BlockStart(S, k)
                        /\ \A j \in (k + 1)..Len(S) : ~BlockStart(S, j)

\* C13.  Counter meaning: after any sequence of read_custom_tags calls from
\* the initial state, the last-seen album is the reconciled album title of
\* the most recent sentinel track ("" when there has been none) and the
\* counter is the number of sentinel tracks processed since the last-seen
\* album last changed: the length of the last block, also when the first
\* album's title is "", the initial last-seen album.
C13_CounterMeaning ==
    IF Numbered = << >>
    THEN null_track_num_count = 0 /\ last_added_album = << >>
    ELSE /\ last_added_album = Numbered[Len(Numbered)].album
         /\ null_track_num_count
               = Len(Numbered) - LastBlockStart(Numbered) + 1

\* The first album's reconciled title is "": two sentinel tracks of it, then
\* a track with a guessed track number, and the counter is 2.
C13_Witness ==
    /\ Len(history) = 3
    /\ Len(Numbered) = 2
    /\ Numbered[1].album = << >> /\ Numbered[2].album = << >>
    /\ ~history[3].sentinel
    /\ null_track_num_count = 2
    /\ last_added_album = << >>

(***************************************************************************)
(* More claims about the pre-persist hooks.                                *)
(***************************************************************************)
\* C14.  Normaliser frame: a step of process_new_items or of
\* process_changed_items leaves the list with the same items in the same
\* order, every item that is not a Track and every Track with track_num >= 0
\* exactly as it was, every attribute other than track_num of the other
\* Tracks as it was, and the disambiguator's counter and last-seen album
\* unchanged.
C14_NormaliserFrame ==
    [][ (ProcessNewItems \/ ProcessChangedItems) =>
          LET before == last_hook'.before
              after  == last_hook'.after
          IN  /\ Len(after) = Len(before)
              /\ \A i \in 1..Len(before) :
                    /\ DOMAIN after[i] = DOMAIN before[i]
                    /\ \A f \in DOMAIN before[i] \ {"track_num"} :
                          after[i][f] = before[i][f]
                    /\ (before[i].type # "Track" \/ before[i].track_num >= 0)
                          => after[i] = before[i]
              /\ null_track_num_count' = null_track_num_count
              /\ last_added_album' = last_added_album ]_vars

\* A pre-persist hook has run on an album, a track holding a placeholder
\* and a track holding a real track number, after the disambiguator
\* counted: only the placeholder changed.
C14_Witness ==
    /\ last_hook.op \in {"process_new_items", "process_changed_items"}
    /\ null_track_num_count >= 1
    /\ \E i, j, k \in 1..Len(last_hook.before) :
          /\ last_hook.before[i].type = "Album"
          /\ last_hook.before[j].type = "Track"
          /\ last_hook.before[j].track_num < 0
          /\ last_hook.after[j].track_num = 0
          /\ last_hook.after[j].title = last_hook.before[j].title
          /\ last_hook.before[k].type = "Track"
          /\ last_hook.before[k].track_num > 0
          /\ last_hook.after[k] = last_hook.before[k]

(***************************************************************************)
(* Claims about the conversion of guesses.                                 *)
(***************************************************************************)
\* The integer-typed track fields that came in blank and whose guess is not
\* numeric.
BadGuesses ==
    { key \in {"track_num", "disc"} :
        /\ Blank(key, call.track_in[key])
        /\ key \in DOMAIN call.guessed_fields
        /\ ~IsNumeric(call.guessed_fields[key]) }

\* C15.  Coercion failure: a read_custom_tags call raises exactly when an
\* integer-typed track field came in blank and its guess is not numeric;
\* the call that raised has left the counter, the last-seen album and the
\* album fields as they were, and has put no placeholder number into
\* track_num.
C15_CoercionFailure ==
    call.op = "read" =>
        /\ call.raised <=> BadGuesses # {}
        /\ call.raised =>
              /\ null_track_num_count = call.count_in
              /\ last_added_album = call.last_in
              /\ call.album_fields = call.album_in
              /\ call.track_fields = call.reconciled

\* A blank track_num meets the guess "a1" after the counter has counted:
\* the call raised and the counter is where it was.
C15_Witness ==
    /\ call.op = "read" /\ call.raised
    /\ Blank("track_num", call.track_in["track_num"])
    /\ call.guessed_fields["track_num"] = <<"a", "1">>
    /\ call.count_in >= 1
    /\ null_track_num_count = call.count_in

(***************************************************************************)
(* Claims about the null-field tables.                                     *)
(***************************************************************************)
\* C16.  Sentinel distinguishability: on files whose tags hold ordinary
\* values, a field that holds its table sentinel when read_custom_tags has
\* returned came in blank, so the sentinel tells a filled-in field from one
\* holding tag data (track_num is looked at before the disambiguator
\* renumbers it).
C16_SentinelDistinguishable ==
    Returned =>
        /\ \A key \in TrackKeySet :
              call.reconciled[key] = NULL_TRACK_FIELDS[key]
                  => Blank(key, call.track_in[key])
        /\ \A key \in AlbumKeySet :
              call.album_fields[key] = NULL_ALBUM_FIELDS[key]
                  => Blank(key, call.album_in[key])

(***************************************************************************)
(* Claims about the calls the disambiguator does not act on.               *)
(***************************************************************************)
\* C17.  Disambiguator frame: a read_custom_tags call whose reconciled
\* track_num is not the sentinel leaves the counter and the last-seen album
\* as they were and the track_num as reconciled, whatever the track's
\* album; hence two sentinel tracks of one album with only such calls
\* between them, of any album, are numbered consecutively.
C17_DisambiguatorFrame ==
    /\ (call.op = "read"
          /\ call.reconciled["track_num"] # NULL_TRACK_FIELDS["track_num"])
       => /\ null_track_num_count = call.count_in
          /\ last_added_album = call.last_in
          /\ call.track_fields["track_num"] = call.reconciled["track_num"]
    /\ \A i, k \in DOMAIN history :
          (/\ i < k
           /\ history[i].sentinel /\ history[k].sentinel
           /\ history[i].album = history[k].album
           /\ \A j \in (i + 1)..(k - 1) : ~history[j].sentinel)
          => history[k].track_num = history[i].track_num - 1

\* A sentinel track of album Y, then a track of album X with a track number
\* from its file name, then a sentinel track of album Y: the latest call
\* was numbered -2, and the call before it changed neither global.
C17_Witness ==
    /\ Len(history) = 3
    /\ history[1] = [album |-> <<"Y">>, sentinel |-> TRUE, track_num |-> -1]
    /\ history[2] = [album |-> <<"X">>, sentinel |-> FALSE, track_num |-> 1]
    /\ history[3] = [album |-> <<"Y">>, sentinel |-> TRUE, track_num |-> -2]
    /\ call.last_in = <<"Y">> /\ call.count_in = 1

(***************************************************************************)
(* Claims about the placeholders over the whole pipeline.                  *)
(***************************************************************************)
\* C18.  Placeholders collapse at commit: two tracks of one album that the
\* disambiguator gave different placeholders hold those different values
\* until a pre-persist hook has run on them, and both hold track_num 0 from
\* then on.
C18_PlaceholdersCollapse ==
    \A i, j \in Tracks :
        (/\ i # j
         /\ items[i].album = items[j].album
         /\ FromDisambiguator(i) /\ FromDisambiguator(j)
         /\ items[i].read_num # items[j].read_num)
        => /\ (items[i].stage = "new" /\ items[j].stage = "new")
                => /\ items[i].track_num = items[i].read_num
                   /\ items[j].track_num = items[j].read_num
           /\ (items[i].stage # "new" /\ items[j].stage # "new")
                => items[i].track_num = 0 /\ items[j].track_num = 0

\* The two tracks of an album were given -1 and -2 and a pre-persist hook
\* has run on both: both hold 0.
C18_Witness ==
    /\ last_hook.op \in {"process_new_items", "process_changed_items"}
    /\ \E i, j \in Tracks :
          /\ items[i].album = items[j].album
          /\ FromDisambiguator(i) /\ items[i].read_num = -1
          /\ FromDisambiguator(j) /\ items[j].read_num = -2
          /\ items[i].stage = "committed" /\ items[j].stage = "committed"
          /\ items[i].track_num = 0 /\ items[j].track_num = 0

(***************************************************************************)
(* Claims about the album fields.                                          *)
(***************************************************************************)
\* C19.  Album guesses are title-only: when read_custom_tags has returned,
\* an album title that came in blank is the parent directory's name as the
\* str it is, an album artist, date or disc_total that came in blank is its
\* table sentinel, whatever the file name matched.
C19_AlbumTitleOnly ==
    Returned =>
        /\ Blank("title", call.album_in["title"])
              => call.album_fields["title"] = call.track_path.parent
        /\ \A key \in AlbumKeySet \ {"title"} :
              Blank(key, call.album_in[key])
                  => call.album_fields[key] = NULL_ALBUM_FIELDS[key]

\* The file name gives a disc and a track number and the directory is named
\* "1": of the blank album fields only the title comes from the path, as
\* the str "1".
C19_Witness ==
    /\ Returned
    /\ call.track_path.parent = <<"1">>
    /\ "disc" \in DOMAIN call.guessed_fields
    /\ \A key \in AlbumKeySet : Blank(key, call.album_in[key])
    /\ call.album_fields = [title      |-> <<"1">>,
                            artist     |-> NULL_ALBUM_FIELDS["artist"],
                            date       |-> NULL_ALBUM_FIELDS["date"],
                            disc_total |-> NULL_ALBUM_FIELDS["disc_total"]]

====
